---- MODULE Spec2Model ----
(***************************************************************************)
(* The TCP relay server of shadowsocks-rust (src/relay/tcprelay/server.rs) *)
(* as a state machine: TcpRelayServer::new, the accept loop of run, the    *)
(* per-connection task (handshake, address parsing, DNS resolution under   *)
(* the shared mutex, dial) and the two pump loops handle_connect_local     *)
(* (client -> remote, decrypt) and handle_connect_remote (remote ->        *)
(* client, encrypt).                                                        *)
(***************************************************************************)
EXTENDS Integers, Sequences, FiniteSets, TLC

\* ------------------------------------------------------------------------
\* Bounds of the exploration
\* ------------------------------------------------------------------------
\* connections the clients open in the concurrent workload
MaxConns == 2
\* largest number of bytes one pump read returns
MaxChunk == 2

\* ------------------------------------------------------------------------
\* Program constants
\* ------------------------------------------------------------------------
\* size of the handshake buffer: let mut buf = [0u8, .. 1024]
HeaderBufLen == 1024
\* size of the pump buffers: let mut buf = [0u8, .. 0xffff]
PumpBufLen == 65535

Min(a, b) == IF a < b THEN a ELSE b

\* Option<T>: None(d) carries a default of T's shape
None(d) == [some |-> FALSE, val |-> d]
Some(v) == [some |-> TRUE, val |-> v]
NoTimeout == None(0)
NoIp == None(<< >>)

\* ------------------------------------------------------------------------
\* Configuration (config::Config, as far as the relay reads it)
\* ------------------------------------------------------------------------
SupportedMethods == {"aes-256-cfb", "rc4"}

ServerA ==
  [address |-> "0.0.0.0", port |-> 8388, password |-> 11,
   method |-> "aes-256-cfb", timeout |-> Some(1)]
ServerB ==
  [address |-> "127.0.0.1", port |-> 8389, password |-> 23,
   method |-> "rc4", timeout |-> NoTimeout]
ServerC ==
  [address |-> "127.0.0.1", port |-> 8390, password |-> 11,
   method |-> "no-such-method", timeout |-> Some(1)]

\* c.server : Option<ServerConfigVariant>
NoServer == [kind |-> "None", slist |-> << >>]
SingleServer(s) == [kind |-> "SingleServer", slist |-> <<s>>]
MultipleServer(l) == [kind |-> "MultipleServer", slist |-> l]

Configs ==
  { NoServer,
    SingleServer(ServerA), SingleServer(ServerC),
    MultipleServer(<< >>), MultipleServer(<<ServerB>>),
    MultipleServer(<<ServerA, ServerB>>), MultipleServer(<<ServerB, ServerA>>) }

\* new with the length test of the server list weakened to "not empty"
NewAcceptsNonEmpty(c) ==
  IF c.kind = "None" THEN FALSE
  ELSE IF c.kind = "SingleServer" THEN TRUE
  ELSE Len(c.slist) >= 1

\* TcpRelayServer::new: does construction go through (TRUE) or fail! (FALSE)
NewAccepts(c) ==
  IF c.kind = "None" THEN FALSE
  ELSE IF c.kind = "SingleServer" THEN TRUE
  ELSE Len(c.slist) = 1

\* run: the server definition the relay runs with
SelectedServer(c) ==
  IF c.kind = "SingleServer" THEN c.slist[1] ELSE Head(c.slist)

\* ------------------------------------------------------------------------
\* Cipher (crypto::cipher): a stream cipher keyed by (method, password).
\* The state is the number of bytes each direction has consumed.
\* ------------------------------------------------------------------------
KeyOf(method, password) == (password * 7 + (IF method = "rc4" THEN 3 ELSE 5)) % 256

KeyStream(key, i) == (key + 31 * i + 1) % 256

NoCipher == [key |-> 0, enc |-> 0, dec |-> 0]

\* cipher::with_name(method, password) : Option<CipherVariant>
CipherWithName(method, password) ==
  IF method \in SupportedMethods
    THEN Some([key |-> KeyOf(method, password), enc |-> 0, dec |-> 0])
    ELSE None(NoCipher)

\* the bytes cipher.encrypt(data) returns
EncryptOut(ci, data) ==
  [i \in 1..Len(data) |-> (data[i] + KeyStream(ci.key, ci.enc + i - 1)) % 256]

\* the cipher after cipher.encrypt(data)
EncryptNext(ci, data) == [ci EXCEPT !.enc = ci.enc + Len(data)]

\* the bytes cipher.decrypt(data) returns
DecryptOut(ci, data) ==
  [i \in 1..Len(data) |->
     (data[i] + 256 - KeyStream(ci.key, ci.dec + i - 1)) % 256]

\* the cipher after cipher.decrypt(data)
DecryptNext(ci, data) == [ci EXCEPT !.dec = ci.dec + Len(data)]

\* ------------------------------------------------------------------------
\* Address parser (relay::socks5::parse_request_header)
\* ------------------------------------------------------------------------
AtypIPv4 == 1
AtypDomain == 3
AtypIPv6 == 4

NoAddress == [kind |-> "None", ip |-> << >>, name |-> << >>, port |-> 0]
SocketAddress(ip, port) ==
  [kind |-> "SocketAddress", ip |-> ip, name |-> << >>, port |-> port]
DomainNameAddress(name, port) ==
  [kind |-> "DomainNameAddress", ip |-> << >>, name |-> name, port |-> port]

PortAt(buf, i) == buf[i] * 256 + buf[i + 1]

ParseError == [ok |-> FALSE, len |-> 0, addr |-> NoAddress]

\* parse_request_header(buf) : Result<(header_len, Address)>
ParseRequestHeader(buf) ==
  IF Len(buf) < 1 THEN ParseError
  ELSE IF buf[1] = AtypIPv4 THEN
    IF Len(buf) < 7 THEN ParseError
    ELSE [ok |-> TRUE, len |-> 7,
          addr |-> SocketAddress(SubSeq(buf, 2, 5), PortAt(buf, 6))]
  ELSE IF buf[1] = AtypIPv6 THEN
    IF Len(buf) < 19 THEN ParseError
    ELSE [ok |-> TRUE, len |-> 19,
          addr |-> SocketAddress(SubSeq(buf, 2, 17), PortAt(buf, 18))]
  ELSE IF buf[1] = AtypDomain THEN
    IF Len(buf) < 2 THEN ParseError
    ELSE IF Len(buf) < 2 + buf[2] + 2 THEN ParseError
    ELSE [ok |-> TRUE, len |-> 2 + buf[2] + 2,
          addr |-> DomainNameAddress(SubSeq(buf, 3, 2 + buf[2]),
                                     PortAt(buf, 3 + buf[2]))]
  ELSE ParseError

\* the header a client serializes for an address
SerializeAddress(a) ==
  IF a.kind = "DomainNameAddress"
    THEN <<AtypDomain, Len(a.name)>> \o a.name \o <<a.port \div 256, a.port % 256>>
    ELSE <<(IF Len(a.ip) = 4 THEN AtypIPv4 ELSE AtypIPv6)>> \o a.ip
           \o <<a.port \div 256, a.port % 256>>

\* ------------------------------------------------------------------------
\* DNS (relay::tcprelay::cached_dns::CachedDns and the system resolver)
\* ------------------------------------------------------------------------
NameA == <<97>>
NameB == <<98>>
Names == {NameA, NameB}

\* the addresses the system's resolver may answer with for a name
HostAddrs(name) ==
  IF name = NameA THEN { <<10, 0, 0, 1>>, <<10, 0, 0, 2>> }
  ELSE { <<10, 0, 1, 1>> }

\* the outcomes of one system resolution: an address, or none
SysResolve(name) == {NoIp} \cup {Some(ip) : ip \in HostAddrs(name)}

\* CachedDns::new()
EmptyCache == [n \in {} |-> << >>]

\* CachedDns::resolve on a hit
CacheHit(cache, name) == name \in DOMAIN cache

\* CachedDns::resolve storing the address of a miss
CacheStore(cache, name, ip) ==
  [n \in (DOMAIN cache) \cup {name} |-> IF n = name THEN ip ELSE cache[n]]

\* ------------------------------------------------------------------------
\* The peers: what a client sends and what the remote host answers
\* ------------------------------------------------------------------------
Payload == <<71, 69, 84>>
Reply == <<79, 75>>

HdrIPv4 == SerializeAddress(SocketAddress(<<93, 184, 216, 34>>, 80))
HdrIPv6 ==
  SerializeAddress(SocketAddress(
    <<32, 1, 13, 184, 0, 0, 0, 0, 0, 0, 0, 0, 0, 0, 0, 1>>, 443))
HdrDomain(n) == SerializeAddress(DomainNameAddress(n, 80))

\* plain: the plaintext stream of the client; first: the number of bytes of
\* it the first read of the server returns; reply: what the remote sends;
\* goodkey: the client holds the server's password; reachable: the remote
\* host accepts the connection
Script(plain, first, reply, goodkey, reachable) ==
  [plain |-> plain, first |-> first, reply |-> reply, goodkey |-> goodkey,
   reachable |-> reachable]

Silent == Script(<< >>, 0, << >>, TRUE, TRUE)

\* one client: every shape of handshake, then the whole relay
FullScripts ==
  { Script(HdrIPv4 \o Payload, Len(HdrIPv4), Reply, TRUE, TRUE),
    Script(HdrIPv4 \o Payload, Len(HdrIPv4), Reply, TRUE, FALSE),
    Script(HdrIPv4 \o Payload, Len(HdrIPv4) + 1, Reply, TRUE, TRUE),
    Script(HdrIPv4 \o Payload, 3, Reply, TRUE, TRUE),
    Script(HdrIPv4 \o Payload, Len(HdrIPv4), Reply, FALSE, TRUE),
    Script(HdrIPv6 \o Payload, Len(HdrIPv6) + 1, << >>, TRUE, TRUE),
    Script(HdrDomain(NameA) \o Payload, Len(HdrDomain(NameA)), Reply, TRUE, TRUE),
    Script(HdrDomain(NameB) \o Payload, Len(HdrDomain(NameB)), Reply, TRUE, FALSE),
    Silent }

\* several clients: the handshakes that meet at the DNS cache
ShortScripts ==
  { Script(HdrDomain(NameA), Len(HdrDomain(NameA)), << >>, TRUE, TRUE),
    Script(HdrDomain(NameB), Len(HdrDomain(NameB)), << >>, TRUE, FALSE),
    Script(HdrIPv4, 3, << >>, TRUE, TRUE) }

ScriptsOf(n) == IF n = 1 THEN FullScripts ELSE ShortScripts

\* ------------------------------------------------------------------------
\* State
\* ------------------------------------------------------------------------
VARIABLES
  config,     \* the Config handed to TcpRelayServer::new
  nClients,   \* how many clients connect during the run
  server,     \* "new", "constructed", "listening", or how it ended
  running,    \* (server_addr, server_port, password, encrypt_method, timeout)
  cache,      \* CachedDns: name -> address
  lockHolder, \* the connection inside dnscache.lock(), 0 when free
  poisoned,   \* a task failed while it held the guard of the mutex
  pc,         \* where the task of each connection stands
  failure,    \* why the task of a connection failed
  script,     \* what the peers of a connection send
  tmo,        \* the timeout set on `stream`
  expired,    \* the deadline of that timeout has passed
  cipher,     \* `cipher`, later owned by the upstream pump
  rcipher,    \* `remote_cipher`, owned by the downstream pump
  addr,       \* the address parsed from the header
  ip,         \* the address the DNS cache returned
  dialed,     \* where TcpStream::connect went
  up,         \* handle_connect_local: "none", "run", or how it ended
  down,       \* handle_connect_remote: "none", "run", or how it ended
  cpos,       \* bytes read from the client socket
  rpos,       \* bytes read from the remote socket
  rout,       \* bytes written to the remote socket
  cout,       \* bytes written to the client socket
  clientH,    \* live handles of the client socket
  remoteH,    \* live handles of the remote socket
  shut,       \* half-closes performed on the sockets
  uses        \* which task has used which socket or cipher handle, and how

srvVars == <<config, nClients, server, running>>
dnsVars == <<cache, lockHolder, poisoned>>
taskVars == <<pc, failure, script, tmo, expired, addr, ip, dialed>>
pumpVars == <<cipher, rcipher, up, down, cpos, rpos, rout, cout, shut>>
sockVars == <<clientH, remoteH>>
vars == <<srvVars, dnsVars, taskVars, pumpVars, sockVars, uses>>

Conns == 1..MaxConns

NotRunning ==
  [server_addr |-> "", server_port |-> 0, password |-> 0,
   encrypt_method |-> "", timeout |-> NoTimeout]

NoDial == [ip |-> << >>, port |-> 0]

Init ==
  /\ config \in Configs
  /\ nClients \in 1..MaxConns
  /\ server = "new"
  /\ running = NotRunning
  /\ cache = EmptyCache
  /\ lockHolder = 0
  /\ poisoned = FALSE
  /\ pc = [c \in Conns |-> "free"]
  /\ failure = [c \in Conns |-> "none"]
  /\ script = [c \in Conns |-> Silent]
  /\ tmo = [c \in Conns |-> NoTimeout]
  /\ expired = [c \in Conns |-> FALSE]
  /\ cipher = [c \in Conns |-> NoCipher]
  /\ rcipher = [c \in Conns |-> NoCipher]
  /\ addr = [c \in Conns |-> NoAddress]
  /\ ip = [c \in Conns |-> NoIp]
  /\ dialed = [c \in Conns |-> NoDial]
  /\ up = [c \in Conns |-> "none"]
  /\ down = [c \in Conns |-> "none"]
  /\ cpos = [c \in Conns |-> 0]
  /\ rpos = [c \in Conns |-> 0]
  /\ rout = [c \in Conns |-> << >>]
  /\ cout = [c \in Conns |-> << >>]
  /\ clientH = [c \in Conns |-> {}]
  /\ remoteH = [c \in Conns |-> {}]
  /\ shut = [c \in Conns |-> {}]
  /\ uses = [c \in Conns |-> {}]

\* a task of connection c calls an operation of a socket or cipher handle of
\* that connection: each element of ops is <<task, handle, operation>>
Use(c, ops) ==
  uses' = [uses EXCEPT ![c] = @ \cup {<<c, o[1], o[2], o[3]>> : o \in ops}]

\* ------------------------------------------------------------------------
\* Startup: TcpRelayServer::new and the head of run
\* ------------------------------------------------------------------------
New ==
  /\ server = "new"
  /\ server' = IF NewAccepts(config) THEN "constructed" ELSE "config_failed"
  /\ UNCHANGED <<config, nClients, running>>
  /\ UNCHANGED <<dnsVars, taskVars, pumpVars, sockVars>>
  /\ UNCHANGED uses

RunningOf(s) ==
  [server_addr |-> s.address, server_port |-> s.port, password |-> s.password,
   encrypt_method |-> s.method, timeout |-> s.timeout]

\* bind(..).listen() is Ok: the server listens with an empty DNS cache
RunListen ==
  /\ server = "constructed"
  /\ running' = RunningOf(SelectedServer(config))
  /\ server' = "listening"
  /\ cache' = EmptyCache
  /\ UNCHANGED <<config, nClients, lockHolder, poisoned>>
  /\ UNCHANGED <<taskVars, pumpVars, sockVars>>
  /\ UNCHANGED uses

\* bind(..).listen() is Err: fail!
RunListenFail ==
  /\ server = "constructed"
  /\ running' = RunningOf(SelectedServer(config))
  /\ server' = "listen_failed"
  /\ UNCHANGED <<config, nClients>>
  /\ UNCHANGED <<dnsVars, taskVars, pumpVars, sockVars>>
  /\ UNCHANGED uses

\* ------------------------------------------------------------------------
\* The accept loop
\* ------------------------------------------------------------------------
\* the accept arm without stream.set_timeout(timeout)
AcceptWithoutTimeout(c) ==
  /\ server = "listening"
  /\ pc[c] = "free"
  /\ c <= nClients
  /\ \A d \in Conns : d < c => pc[d] # "free"
  /\ \E s \in ScriptsOf(nClients) : script' = [script EXCEPT ![c] = s]
  /\ clientH' = [clientH EXCEPT ![c] = {"stream"}]
  /\ pc' = [pc EXCEPT ![c] = "handshake"]
  /\ UNCHANGED <<srvVars, dnsVars, pumpVars>>
  /\ UNCHANGED <<failure, tmo, expired, addr, ip, dialed, remoteH>>
  /\ UNCHANGED uses

\* acceptor.accept() is Ok(stream): set the timeout, spawn the task
Accept(c) ==
  /\ server = "listening"
  /\ pc[c] = "free"
  /\ c <= nClients
  /\ \A d \in Conns : d < c => pc[d] # "free"
  /\ \E s \in ScriptsOf(nClients) : script' = [script EXCEPT ![c] = s]
  /\ tmo' = [tmo EXCEPT ![c] = running.timeout]
  /\ clientH' = [clientH EXCEPT ![c] = {"stream"}]
  /\ pc' = [pc EXCEPT ![c] = "handshake"]
  /\ UNCHANGED <<srvVars, dnsVars, pumpVars>>
  /\ UNCHANGED <<failure, expired, addr, ip, dialed, remoteH>>
  /\ UNCHANGED uses

\* acceptor.accept() is Err(e): fail! in the task that runs the loop
AcceptFail ==
  /\ server = "listening"
  /\ server' = "accept_failed"
  /\ UNCHANGED <<config, nClients, running>>
  /\ UNCHANGED <<dnsVars, taskVars, pumpVars, sockVars>>
  /\ UNCHANGED uses

\* time passes the deadline that set_timeout put on `stream`, with a task
\* that reads `stream` (the deadline is seen by nothing else)
Expire(c) ==
  /\ tmo[c].some
  /\ ~expired[c]
  /\ pc[c] = "handshake" \/ up[c] = "run"
  /\ expired' = [expired EXCEPT ![c] = TRUE]
  /\ UNCHANGED <<srvVars, dnsVars, pumpVars, sockVars>>
  /\ UNCHANGED <<pc, failure, script, tmo, addr, ip, dialed>>
  /\ UNCHANGED uses

\* ------------------------------------------------------------------------
\* The task of one connection: handshake, resolution, dial
\* ------------------------------------------------------------------------
\* the key of the client's cipher
ClientKey(c) ==
  IF script[c].goodkey
    THEN KeyOf(running.encrypt_method, running.password)
    ELSE (KeyOf(running.encrypt_method, running.password) + 1) % 256

\* the byte stream the client puts on the wire
ClientWire(c) ==
  EncryptOut([key |-> ClientKey(c), enc |-> 0, dec |-> 0], script[c].plain)

\* the byte stream a client gets back from what the server wrote to it
ClientView(c) == DecryptOut([key |-> ClientKey(c), enc |-> 0, dec |-> 0], cout[c])

\* a failing task that kept `stream` alive
FailKeepsStream(c, why) ==
  /\ pc' = [pc EXCEPT ![c] = "failed"]
  /\ failure' = [failure EXCEPT ![c] = why]
  /\ clientH' = clientH

\* fail!/expect in the task of the connection: it unwinds and drops `stream`
Fail(c, why) ==
  /\ pc' = [pc EXCEPT ![c] = "failed"]
  /\ failure' = [failure EXCEPT ![c] = why]
  /\ clientH' = [clientH EXCEPT ![c] = {}]

FreshCipher == CipherWithName(running.encrypt_method, running.password)

\* a handshake that reads on until the header is whole
FirstReadWholeHeader(c) ==
  SubSeq(ClientWire(c), 1,
         IF script[c].first < ParseRequestHeader(script[c].plain).len
           THEN ParseRequestHeader(script[c].plain).len
           ELSE script[c].first)

\* stream.read(buf) of the handshake returns Ok(header_len)
FirstRead(c) == SubSeq(ClientWire(c), 1, Min(script[c].first, HeaderBufLen))

\* cipher::with_name(..) is None: expect("Unsupported cipher")
HandshakeCipherFail(c) ==
  /\ pc[c] = "handshake"
  /\ ~FreshCipher.some
  /\ Fail(c, "UnsupportedCipher")
  /\ UNCHANGED <<srvVars, dnsVars, pumpVars, remoteH>>
  /\ UNCHANGED <<script, tmo, expired, addr, ip, dialed>>
  /\ UNCHANGED uses

\* the kinds of error the handshake read can return now
HandshakeReadErrors(c) ==
  {"ReadOther"}
    \cup (IF script[c].first = 0 THEN {"ReadEndOfFile"} ELSE {})
    \cup (IF expired[c] THEN {"ReadTimedOut"} ELSE {})

\* stream.read(buf) is Err: expect("Error occurs while reading header")
HandshakeReadFail(c) ==
  /\ pc[c] = "handshake"
  /\ FreshCipher.some
  /\ \E kind \in HandshakeReadErrors(c) : Fail(c, kind)
  /\ UNCHANGED <<srvVars, dnsVars, pumpVars, remoteH>>
  /\ UNCHANGED <<script, tmo, expired, addr, ip, dialed>>
  /\ Use(c, {<<"task", "client", "read">>})

\* the header is read and decrypted, parse_request_header is Err: fail!
HandshakeParseFail(c) ==
  /\ pc[c] = "handshake"
  /\ FreshCipher.some
  /\ script[c].first > 0
  /\ ~ParseRequestHeader(DecryptOut(FreshCipher.val, FirstRead(c))).ok
  /\ cipher' = [cipher EXCEPT ![c] = DecryptNext(FreshCipher.val, FirstRead(c))]
  /\ cpos' = [cpos EXCEPT ![c] = Len(FirstRead(c))]
  /\ Fail(c, "ParseHeader")
  /\ UNCHANGED <<srvVars, dnsVars, remoteH>>
  /\ UNCHANGED <<script, tmo, expired, addr, ip, dialed>>
  /\ UNCHANGED <<rcipher, up, down, rpos, rout, cout, shut>>
  /\ Use(c, {<<"task", "client", "read">>, <<"task", "cipher", "decrypt">>})

\* the task going on to connect without asking the DNS cache
HandshakeSkipsResolve(c) ==
  /\ pc[c] = "handshake"
  /\ FreshCipher.some
  /\ script[c].first > 0
  /\ LET header == DecryptOut(FreshCipher.val, FirstRead(c))
         parsed == ParseRequestHeader(header)
     IN /\ parsed.ok
        /\ addr' = [addr EXCEPT ![c] = parsed.addr]
        /\ pc' = [pc EXCEPT ![c] = "connect"]
  /\ cipher' = [cipher EXCEPT ![c] = DecryptNext(FreshCipher.val, FirstRead(c))]
  /\ cpos' = [cpos EXCEPT ![c] = Len(FirstRead(c))]
  /\ UNCHANGED <<srvVars, dnsVars, sockVars>>
  /\ UNCHANGED <<failure, script, tmo, expired, ip, dialed>>
  /\ UNCHANGED <<rcipher, up, down, rpos, rout, cout, shut>>
  /\ Use(c, {<<"task", "client", "read">>, <<"task", "cipher", "decrypt">>})

\* the header is read, decrypted and parsed: (_, addr)
Handshake(c) ==
  /\ pc[c] = "handshake"
  /\ FreshCipher.some
  /\ script[c].first > 0
  /\ LET header == DecryptOut(FreshCipher.val, FirstRead(c))
         parsed == ParseRequestHeader(header)
     IN /\ parsed.ok
        /\ addr' = [addr EXCEPT ![c] = parsed.addr]
        /\ pc' = [pc EXCEPT ![c] =
                    IF parsed.addr.kind = "SocketAddress"
                      THEN "connect" ELSE "lock"]
  /\ cipher' = [cipher EXCEPT ![c] = DecryptNext(FreshCipher.val, FirstRead(c))]
  /\ cpos' = [cpos EXCEPT ![c] = Len(FirstRead(c))]
  /\ UNCHANGED <<srvVars, dnsVars, sockVars>>
  /\ UNCHANGED <<failure, script, tmo, expired, ip, dialed>>
  /\ UNCHANGED <<rcipher, up, down, rpos, rout, cout, shut>>
  /\ Use(c, {<<"task", "client", "read">>, <<"task", "cipher", "decrypt">>})

\* a cache read and written without the mutex
LockAlwaysFree == TRUE

\* Mutex::lock can return: nobody holds the mutex
LockFree == lockHolder = 0

\* dnscache.lock() on a poisoned mutex fails the task
DnsLockPoisoned(c) ==
  /\ pc[c] = "lock"
  /\ LockFree
  /\ poisoned
  /\ Fail(c, "PoisonedLock")
  /\ UNCHANGED <<srvVars, dnsVars, pumpVars, remoteH>>
  /\ UNCHANGED <<script, tmo, expired, addr, ip, dialed>>
  /\ UNCHANGED uses

\* dnscache.lock().resolve(name), the name is cached: Some(addr), the
\* guard is dropped at the end of the statement
DnsHit(c) ==
  /\ pc[c] = "lock"
  /\ LockFree
  /\ ~poisoned
  /\ CacheHit(cache, addr[c].name)
  /\ ip' = [ip EXCEPT ![c] = Some(cache[addr[c].name])]
  /\ pc' = [pc EXCEPT ![c] = "connect"]
  /\ UNCHANGED <<srvVars, dnsVars, pumpVars, sockVars>>
  /\ UNCHANGED <<failure, script, tmo, expired, addr, dialed>>
  /\ UNCHANGED uses

\* dnscache.lock().resolve(name), the name is not cached: the system's
\* resolver is called with the guard alive
DnsMiss(c) ==
  /\ pc[c] = "lock"
  /\ LockFree
  /\ ~poisoned
  /\ ~CacheHit(cache, addr[c].name)
  /\ lockHolder' = c
  /\ pc' = [pc EXCEPT ![c] = "resolve"]
  /\ UNCHANGED <<srvVars, cache, poisoned, pumpVars, sockVars>>
  /\ UNCHANGED <<failure, script, tmo, expired, addr, ip, dialed>>
  /\ UNCHANGED uses

\* the system's resolver answers with an address: resolve stores it and
\* returns Some(addr), the guard is dropped at the end of the statement
DnsResolved(c) ==
  /\ pc[c] = "resolve"
  /\ \E r \in SysResolve(addr[c].name) :
       /\ r.some
       /\ cache' = CacheStore(cache, addr[c].name, r.val)
       /\ ip' = [ip EXCEPT ![c] = r]
  /\ lockHolder' = 0
  /\ pc' = [pc EXCEPT ![c] = "connect"]
  /\ UNCHANGED <<srvVars, poisoned, pumpVars, sockVars>>
  /\ UNCHANGED <<failure, script, tmo, expired, addr, dialed>>
  /\ UNCHANGED uses

\* the system's resolver has no address: resolve returns None and the task
\* fail!s inside the match, with the guard of the mutex still alive
DnsResolveFail(c) ==
  /\ pc[c] = "resolve"
  /\ NoIp \in SysResolve(addr[c].name)
  /\ lockHolder' = 0
  /\ poisoned' = TRUE
  /\ Fail(c, "ResolveHost")
  /\ UNCHANGED <<srvVars, cache, pumpVars, remoteH>>
  /\ UNCHANGED <<script, tmo, expired, addr, ip, dialed>>
  /\ UNCHANGED uses

\* the (ip, port) TcpStream::connect is called with
DialTarget(c) ==
  [ip |-> IF addr[c].kind = "SocketAddress" THEN addr[c].ip ELSE ip[c].val,
   port |-> addr[c].port]

\* TcpStream::connect is Err: fail!/expect
ConnectFail(c) ==
  /\ pc[c] = "connect"
  /\ ~script[c].reachable
  /\ dialed' = [dialed EXCEPT ![c] = DialTarget(c)]
  /\ Fail(c, "Connect")
  /\ UNCHANGED <<srvVars, dnsVars, pumpVars, remoteH>>
  /\ UNCHANGED <<script, tmo, expired, addr, ip>>
  /\ UNCHANGED uses

\* the pumps spawned with a cipher made anew after the handshake
ConnectReinitsCipher(c) ==
  /\ pc[c] = "connect"
  /\ script[c].reachable
  /\ dialed' = [dialed EXCEPT ![c] = DialTarget(c)]
  /\ clientH' = [clientH EXCEPT ![c] = {"stream", "remote_local_stream"}]
  /\ remoteH' = [remoteH EXCEPT ![c] = {"remote_stream", "remote_remote_stream"}]
  /\ rcipher' = [rcipher EXCEPT ![c] = FreshCipher.val]
  /\ down' = [down EXCEPT ![c] = "run"]
  /\ up' = [up EXCEPT ![c] = "run"]
  /\ pc' = [pc EXCEPT ![c] = "relay"]
  /\ UNCHANGED <<srvVars, dnsVars>>
  /\ UNCHANGED <<failure, script, tmo, expired, addr, ip>>
  /\ cipher' = [cipher EXCEPT ![c] = FreshCipher.val]
  /\ UNCHANGED <<cpos, rpos, rout, cout, shut>>
  /\ UNCHANGED uses

\* TcpStream::connect is Ok: clone the streams and the cipher, spawn the
\* two pumps; the task of the connection ends
Connect(c) ==
  /\ pc[c] = "connect"
  /\ script[c].reachable
  /\ dialed' = [dialed EXCEPT ![c] = DialTarget(c)]
  /\ clientH' = [clientH EXCEPT ![c] = {"stream", "remote_local_stream"}]
  /\ remoteH' = [remoteH EXCEPT ![c] = {"remote_stream", "remote_remote_stream"}]
  /\ rcipher' = [rcipher EXCEPT ![c] = cipher[c]]
  /\ down' = [down EXCEPT ![c] = "run"]
  /\ up' = [up EXCEPT ![c] = "run"]
  /\ pc' = [pc EXCEPT ![c] = "relay"]
  /\ UNCHANGED <<srvVars, dnsVars>>
  /\ UNCHANGED <<failure, script, tmo, expired, addr, ip>>
  /\ UNCHANGED <<cipher, cpos, rpos, rout, cout, shut>>
  /\ UNCHANGED uses

\* ------------------------------------------------------------------------
\* handle_connect_local: the upstream pump (client -> remote)
\* ------------------------------------------------------------------------
\* the sizes local_stream.read(buf) can return
UpReadSizes(c) ==
  1..Min(Min(MaxChunk, PumpBufLen), Len(ClientWire(c)) - cpos[c])

UpChunk(c, n) == SubSeq(ClientWire(c), cpos[c] + 1, cpos[c] + n)

\* the upstream pump closing both sockets when it ends
UpDropClosesSockets(c) ==
  /\ clientH' = [clientH EXCEPT ![c] = {}]
  /\ remoteH' = [remoteH EXCEPT ![c] = {}]

\* the pump's proc ends: `stream` and `remote_stream` are dropped
UpDrop(c) ==
  /\ clientH' = [clientH EXCEPT ![c] = @ \ {"stream"}]
  /\ remoteH' = [remoteH EXCEPT ![c] = @ \ {"remote_stream"}]

\* the loop writing real_buf instead of decrypted_msg
UpRelayWritesRaw(c) ==
  /\ up[c] = "run"
  /\ \E n \in UpReadSizes(c) :
       /\ cpos' = [cpos EXCEPT ![c] = @ + n]
       /\ cipher' = [cipher EXCEPT ![c] = DecryptNext(@, UpChunk(c, n))]
       /\ rout' = [rout EXCEPT ![c] = @ \o UpChunk(c, n)]
  /\ UNCHANGED <<srvVars, dnsVars, taskVars, sockVars>>
  /\ UNCHANGED <<rcipher, up, down, rpos, cout, shut>>
  /\ Use(c, {<<"up", "client", "read">>, <<"up", "cipher", "decrypt">>,
             <<"up", "remote", "write">>})

\* one turn of the loop: read Ok(len), decrypt, write Ok
UpRelay(c) ==
  /\ up[c] = "run"
  /\ \E n \in UpReadSizes(c) :
       /\ cpos' = [cpos EXCEPT ![c] = @ + n]
       /\ cipher' = [cipher EXCEPT ![c] = DecryptNext(@, UpChunk(c, n))]
       /\ rout' = [rout EXCEPT ![c] = @ \o DecryptOut(cipher[c], UpChunk(c, n))]
  /\ UNCHANGED <<srvVars, dnsVars, taskVars, sockVars>>
  /\ UNCHANGED <<rcipher, up, down, rpos, cout, shut>>
  /\ Use(c, {<<"up", "client", "read">>, <<"up", "cipher", "decrypt">>,
             <<"up", "remote", "write">>})

\* read Ok(len), decrypt, write Err: expect("Error occurs while writing to
\* remote stream") fails the pump's task
UpWriteFail(c) ==
  /\ up[c] = "run"
  /\ \E n \in UpReadSizes(c) :
       /\ cpos' = [cpos EXCEPT ![c] = @ + n]
       /\ cipher' = [cipher EXCEPT ![c] = DecryptNext(@, UpChunk(c, n))]
  /\ up' = [up EXCEPT ![c] = "WriteFail"]
  /\ UpDrop(c)
  /\ UNCHANGED <<srvVars, dnsVars, taskVars>>
  /\ UNCHANGED <<rcipher, down, rpos, rout, cout, shut>>
  /\ Use(c, {<<"up", "client", "read">>, <<"up", "cipher", "decrypt">>,
             <<"up", "remote", "write">>})

\* the kinds of error local_stream.read(buf) can return now
UpReadErrors(c) ==
  {"Other"}
    \cup (IF cpos[c] = Len(ClientWire(c)) THEN {"EndOfFile"} ELSE {})
    \cup (IF expired[c] THEN {"TimedOut"} ELSE {})

\* read Err(err): break
UpReadErr(c) ==
  /\ up[c] = "run"
  /\ \E kind \in UpReadErrors(c) : up' = [up EXCEPT ![c] = kind]
  /\ UpDrop(c)
  /\ UNCHANGED <<srvVars, dnsVars, taskVars>>
  /\ UNCHANGED <<cipher, rcipher, down, cpos, rpos, rout, cout, shut>>
  /\ Use(c, {<<"up", "client", "read">>})

\* ------------------------------------------------------------------------
\* handle_connect_remote: the downstream pump (remote -> client)
\* ------------------------------------------------------------------------
\* the sizes remote_stream.read_at_least(1, buf) can return
DownReadSizes(c) ==
  1..Min(Min(MaxChunk, PumpBufLen), Len(script[c].reply) - rpos[c])

DownChunk(c, n) == SubSeq(script[c].reply, rpos[c] + 1, rpos[c] + n)

\* the pump's proc ends: its two stream clones are dropped
DownDrop(c) ==
  /\ clientH' = [clientH EXCEPT ![c] = @ \ {"remote_local_stream"}]
  /\ remoteH' = [remoteH EXCEPT ![c] = @ \ {"remote_remote_stream"}]

\* the downstream loop reading the client socket: the streams swapped
DownRelayReadsClient(c) ==
  /\ down[c] = "run"
  /\ \E n \in DownReadSizes(c) :
       /\ rpos' = [rpos EXCEPT ![c] = @ + n]
       /\ rcipher' = [rcipher EXCEPT ![c] = EncryptNext(@, DownChunk(c, n))]
       /\ cout' = [cout EXCEPT ![c] = @ \o EncryptOut(rcipher[c], DownChunk(c, n))]
  /\ UNCHANGED <<srvVars, dnsVars, taskVars, sockVars>>
  /\ UNCHANGED <<cipher, up, down, cpos, rout, shut>>
  /\ Use(c, {<<"down", "client", "read">>, <<"down", "remote_cipher", "encrypt">>,
             <<"down", "client", "write">>})

\* the downstream loop encrypting with `cipher`, not with its clone
DownRelaySharesCipher(c) ==
  /\ down[c] = "run"
  /\ \E n \in DownReadSizes(c) :
       /\ rpos' = [rpos EXCEPT ![c] = @ + n]
       /\ cipher' = [cipher EXCEPT ![c] = EncryptNext(@, DownChunk(c, n))]
       /\ cout' = [cout EXCEPT ![c] = @ \o EncryptOut(cipher[c], DownChunk(c, n))]
  /\ UNCHANGED <<srvVars, dnsVars, taskVars, sockVars>>
  /\ UNCHANGED <<rcipher, up, down, cpos, rout, shut>>
  /\ Use(c, {<<"down", "remote", "read">>, <<"down", "cipher", "encrypt">>,
             <<"down", "client", "write">>})

\* one turn of the loop: read Ok(len), encrypt, write Ok
DownRelay(c) ==
  /\ down[c] = "run"
  /\ \E n \in DownReadSizes(c) :
       /\ rpos' = [rpos EXCEPT ![c] = @ + n]
       /\ rcipher' = [rcipher EXCEPT ![c] = EncryptNext(@, DownChunk(c, n))]
       /\ cout' = [cout EXCEPT ![c] = @ \o EncryptOut(rcipher[c], DownChunk(c, n))]
  /\ UNCHANGED <<srvVars, dnsVars, taskVars, sockVars>>
  /\ UNCHANGED <<cipher, up, down, cpos, rout, shut>>
  /\ Use(c, {<<"down", "remote", "read">>, <<"down", "remote_cipher", "encrypt">>,
             <<"down", "client", "write">>})

\* read Ok(len), encrypt, write Err: remote_stream.close_read(), break
DownWriteFail(c) ==
  /\ down[c] = "run"
  /\ \E n \in DownReadSizes(c) :
       /\ rpos' = [rpos EXCEPT ![c] = @ + n]
       /\ rcipher' = [rcipher EXCEPT ![c] = EncryptNext(@, DownChunk(c, n))]
  /\ shut' = [shut EXCEPT ![c] = @ \cup {"remote_read"}]
  /\ down' = [down EXCEPT ![c] = "WriteFail"]
  /\ DownDrop(c)
  /\ UNCHANGED <<srvVars, dnsVars, taskVars>>
  /\ UNCHANGED <<cipher, up, cpos, rout, cout>>
  /\ Use(c, {<<"down", "remote", "read">>, <<"down", "remote_cipher", "encrypt">>,
             <<"down", "client", "write">>, <<"down", "remote", "close_read">>})

\* the kinds of error remote_stream.read_at_least(1, buf) can return now
DownReadErrors(c) ==
  {"Other"} \cup (IF rpos[c] = Len(script[c].reply) THEN {"EndOfFile"} ELSE {})

\* read Err(err): local_stream.close_write(), break
DownReadErr(c) ==
  /\ down[c] = "run"
  /\ \E kind \in DownReadErrors(c) : down' = [down EXCEPT ![c] = kind]
  /\ shut' = [shut EXCEPT ![c] = @ \cup {"client_write"}]
  /\ DownDrop(c)
  /\ UNCHANGED <<srvVars, dnsVars, taskVars>>
  /\ UNCHANGED <<cipher, rcipher, up, cpos, rpos, rout, cout>>
  /\ Use(c, {<<"down", "remote", "read">>, <<"down", "client", "close_write">>})

\* ------------------------------------------------------------------------
\* The system
\* ------------------------------------------------------------------------
Next ==
  \/ New
  \/ RunListen
  \/ RunListenFail
  \/ AcceptFail
  \/ \E c \in Conns : Accept(c)
  \/ \E c \in Conns : Expire(c)
  \/ \E c \in Conns : HandshakeCipherFail(c)
  \/ \E c \in Conns : HandshakeReadFail(c)
  \/ \E c \in Conns : HandshakeParseFail(c)
  \/ \E c \in Conns : Handshake(c)
  \/ \E c \in Conns : DnsLockPoisoned(c)
  \/ \E c \in Conns : DnsHit(c)
  \/ \E c \in Conns : DnsMiss(c)
  \/ \E c \in Conns : DnsResolved(c)
  \/ \E c \in Conns : DnsResolveFail(c)
  \/ \E c \in Conns : ConnectFail(c)
  \/ \E c \in Conns : Connect(c)
  \/ \E c \in Conns : UpRelay(c)
  \/ \E c \in Conns : UpWriteFail(c)
  \/ \E c \in Conns : UpReadErr(c)
  \/ \E c \in Conns : DownRelay(c)
  \/ \E c \in Conns : DownWriteFail(c)
  \/ \E c \in Conns : DownReadErr(c)

Spec == Init /\ [][Next]_vars

\* the handshake read returns TimedOut
HandshakeTimedOut(c) == HandshakeReadFail(c) /\ failure'[c] = "ReadTimedOut"

\* the upstream pump's read returns TimedOut
UpTimedOut(c) == UpReadErr(c) /\ up'[c] = "TimedOut"

\* Scheduling: time passes, a read blocked on `stream` returns when its
\* deadline has passed, and a task that can run without blocking does run.
FairSpec ==
  /\ Spec
  /\ \A c \in Conns : WF_vars(Expire(c))
  /\ \A c \in Conns : WF_vars(HandshakeTimedOut(c))
  /\ \A c \in Conns : WF_vars(HandshakeCipherFail(c))
  /\ \A c \in Conns : WF_vars(UpTimedOut(c))

\* ------------------------------------------------------------------------
\* Properties
\* ------------------------------------------------------------------------
IsPrefix(s, t) == Len(s) <= Len(t) /\ s = SubSeq(t, 1, Len(s))

Accepted(c) == pc[c] # "free"

\* the length of the address header at the head of the client's plaintext
HeaderLen(c) == ParseRequestHeader(script[c].plain).len

\* the client's plaintext after the address header
PayloadOf(c) == SubSeq(script[c].plain, HeaderLen(c) + 1, Len(script[c].plain))

\* the first read held a whole header and payload bytes after it
HeaderWithPayload(c) ==
  /\ script[c].goodkey
  /\ ParseRequestHeader(script[c].plain).ok
  /\ Len(FirstRead(c)) > HeaderLen(c)

\* C1: for a connection whose first read holds a valid header followed by
\* payload bytes, what the server has written to the remote socket is the
\* decrypted payload from its first byte on, in order.
C1_RemoteGetsPayload ==
  \A c \in Conns :
    (Accepted(c) /\ HeaderWithPayload(c)) => IsPrefix(rout[c], PayloadOf(c))

\* C2: a connection that failed before the relay phase has its client
\* socket closed, no remote socket open and no pump started.
C2_FailedConnectionReleased ==
  \A c \in Conns :
    pc[c] = "failed" =>
      /\ clientH[c] = {}
      /\ remoteH[c] = {}
      /\ up[c] = "none"
      /\ down[c] = "none"

C2_Witness ==
  \E c \in Conns : pc[c] = "failed" /\ failure[c] = "Connect" /\ cpos[c] > 0

\* C3: after a connection has failed, every later connection's resolve on
\* the shared DNS cache acquires the lock and returns: no connection fails
\* at dnscache.lock().
C3_CacheUsableAfterFailure ==
  \A c \in Conns : failure[c] # "PoisonedLock"

\* both connections asked the cache for the same name and got an answer
SameNameResolved(c, d) ==
  /\ c # d
  /\ addr[c].kind = "DomainNameAddress"
  /\ addr[d].kind = "DomainNameAddress"
  /\ addr[c].name = addr[d].name
  /\ ip[c].some
  /\ ip[d].some

\* C4: two connections that resolve the same uncached name receive the same
\* address, and the cache holds that address for the name.
C4_SameNameSameAddress ==
  \A c, d \in Conns :
    SameNameResolved(c, d) =>
      /\ ip[c].val = ip[d].val
      /\ CacheHit(cache, addr[c].name)
      /\ cache[addr[c].name] = ip[c].val

C4_Witness ==
  \E c, d \in Conns : SameNameResolved(c, d) /\ addr[c].name = NameA

\* a client that connects and never sends a byte
SilentClient(c) == Accepted(c) /\ script[c] = Silent

\* C5: the configured timeout is on the client socket before the handshake
\* read; a silent client never gets past the handshake read, and with a
\* timeout configured its connection is eventually failed.
C5_SilentClientTimesOut ==
  /\ [](\A c \in Conns : pc[c] = "handshake" => tmo[c] = running.timeout)
  /\ [](\A c \in Conns : SilentClient(c) => pc[c] \in {"handshake", "failed"})
  /\ \A c \in Conns :
       (SilentClient(c) /\ running.timeout.some) ~> (pc[c] = "failed")

C5_Witness ==
  \E c \in Conns :
    SilentClient(c) /\ tmo[c].some /\ failure[c] = "ReadTimedOut"

\* C6: once the server listens, nothing ends the accept loop.
C6_AcceptLoopNeverEnds ==
  [][server = "listening" => server' = "listening"]_vars

\* the configuration holds exactly one server definition
ExactlyOneServer(cfg) ==
  \/ cfg.kind = "SingleServer"
  \/ cfg.kind = "MultipleServer" /\ Len(cfg.slist) = 1

\* C7: construction succeeds exactly when the configuration holds exactly
\* one server definition; a failed construction binds nothing, and a
\* constructed server runs with that definition's five settings.
C7_ExactlyOneServer ==
  /\ server # "new" => (server # "config_failed" <=> ExactlyOneServer(config))
  /\ server = "config_failed" =>
       /\ running = NotRunning
       /\ \A c \in Conns : pc[c] = "free" /\ clientH[c] = {}
  /\ server \in {"listening", "listen_failed", "accept_failed"} =>
       /\ ExactlyOneServer(config)
       /\ running.server_addr = config.slist[1].address
       /\ running.server_port = config.slist[1].port
       /\ running.password = config.slist[1].password
       /\ running.encrypt_method = config.slist[1].method
       /\ running.timeout = config.slist[1].timeout

C7_Witness ==
  server = "listening" /\ config.kind = "MultipleServer"

\* what the upstream loop has read from the client, in plaintext
UpRead(c) == SubSeq(script[c].plain, script[c].first + 1, cpos[c])

\* what the downstream loop has read from the remote
DownRead(c) == SubSeq(script[c].reply, 1, rpos[c])

\* C8: in each direction the destination has received, in the order read
\* and transformed once, every chunk the loop has read; only the chunk of
\* a failed write, which ends the loop, is missing.
C8_ChunksInOrder ==
  \A c \in Conns :
    pc[c] = "relay" =>
      /\ up[c] # "WriteFail" => rout[c] = UpRead(c)
      /\ up[c] = "WriteFail" => IsPrefix(rout[c], UpRead(c))
      /\ down[c] # "WriteFail" => ClientView(c) = DownRead(c)
      /\ down[c] = "WriteFail" => IsPrefix(ClientView(c), DownRead(c))

C8_Witness ==
  \E c \in Conns :
    /\ script[c].first = HeaderLen(c)
    /\ rout[c] = Payload
    /\ ClientView(c) = Reply

\* C9: a pump whose read reported end of file has half-closed the write
\* side of the other socket.
C9_EofHalfClosesWrite ==
  \A c \in Conns :
    /\ up[c] = "EndOfFile" => "remote_write" \in shut[c]
    /\ down[c] = "EndOfFile" => "client_write" \in shut[c]

\* C10: a pump whose write failed has half-closed the read side of the
\* socket it was reading from.
C10_WriteFailHalfClosesRead ==
  \A c \in Conns :
    /\ down[c] = "WriteFail" => "remote_read" \in shut[c]
    /\ up[c] = "WriteFail" => "client_read" \in shut[c]

\* a pump loop has ended
Exited(p) == p \notin {"none", "run"}

\* C11: once one pump loop of a connection has exited, the other one
\* eventually exits too, whatever the peers do afterwards.
C11_OtherPumpExits ==
  \A c \in Conns :
    /\ Exited(up[c]) ~> Exited(down[c])
    /\ Exited(down[c]) ~> Exited(up[c])

\* C12: no connection holds the lock of the DNS cache while the system's
\* resolution runs; a lookup of another name never waits for it.
C12_LockNotHeldWhileResolving ==
  /\ \A c \in Conns : pc[c] = "resolve" => lockHolder # c
  /\ \A c, d \in Conns :
       (pc[c] = "resolve" /\ pc[d] = "lock" /\ addr[d].name # addr[c].name)
         => LockFree

\* the order of the states of a connection's task
TaskOrder(c) ==
  \/ pc'[c] = pc[c]
  \/ pc[c] = "free" /\ pc'[c] = "handshake"
  \/ pc[c] = "handshake" /\ pc'[c] \in {"lock", "connect", "failed"}
  \/ pc[c] = "lock" /\ pc'[c] \in {"resolve", "connect", "failed"}
  \/ pc[c] = "resolve" /\ pc'[c] \in {"connect", "failed"}
  \/ pc[c] = "connect" /\ pc'[c] \in {"relay", "failed"}

\* the remote is dialed at the parsed (and, for a name, resolved) address
DialedAfterResolution(c) ==
  dialed[c] # NoDial =>
    /\ addr[c].kind # "None"
    /\ addr[c] = ParseRequestHeader(script[c].plain).addr
    /\ dialed[c].port = addr[c].port
    /\ addr[c].kind = "SocketAddress" => dialed[c].ip = addr[c].ip
    /\ addr[c].kind = "DomainNameAddress" =>
         ip[c].some /\ dialed[c].ip = ip[c].val

\* the pumps exist only after a successful dial, both or none
PumpsAfterDial(c) ==
  /\ (up[c] # "none") <=> (down[c] # "none")
  /\ up[c] # "none" =>
       pc[c] = "relay" /\ dialed[c] # NoDial /\ script[c].reachable

\* each pump starts at most once: a loop that has ended stays ended, and
\* the two start in the same step
PumpsStartOnce(c) ==
  /\ Exited(up[c]) => up'[c] = up[c]
  /\ Exited(down[c]) => down'[c] = down[c]
  /\ (up[c] = "none" /\ up'[c] # "none") => (up'[c] = "run" /\ down'[c] = "run")

\* C13: a connection goes through its states in order, possibly ending
\* early; it dials only after parsing (and resolving), and starts its two
\* pumps only after the dial succeeded, together and once.
C13_StatesInOrder ==
  [][\A c \in Conns :
       /\ TaskOrder(c)
       /\ PumpsStartOnce(c)
       /\ DialedAfterResolution(c)'
       /\ PumpsAfterDial(c)']_vars

C13_Witness ==
  \E c \in Conns :
    /\ addr[c].kind = "DomainNameAddress"
    /\ Exited(up[c])
    /\ Exited(down[c])

\* C14: no timeout ends a pump loop.
C14_NoTimeoutInRelay ==
  \A c \in Conns : up[c] # "TimedOut" /\ down[c] # "TimedOut"

\* the tasks that have called operation op of a connection's handle h
Users(c, h, op) == {<<u[1], u[2]>> : u \in {v \in uses[c] : v[3] = h /\ v[4] = op}}

\* C15: every socket has one reader and one writer at a time: the client
\* socket is read by the connection's task during the handshake and, after
\* that task has ended, by the upstream pump, and written by the downstream
\* pump; the remote socket is read by the downstream pump and written by
\* the upstream pump; no other connection's task touches them.
C15_OneReaderOneWriter ==
  \A c \in Conns :
    /\ Users(c, "client", "read") \subseteq {<<c, "task">>, <<c, "up">>}
    /\ Users(c, "client", "write") \subseteq {<<c, "down">>}
    /\ Users(c, "client", "close_write") \subseteq {<<c, "down">>}
    /\ Users(c, "client", "close_read") = {}
    /\ Users(c, "remote", "read") \subseteq {<<c, "down">>}
    /\ Users(c, "remote", "close_read") \subseteq {<<c, "down">>}
    /\ Users(c, "remote", "write") \subseteq {<<c, "up">>}
    /\ Users(c, "remote", "close_write") = {}
    /\ up[c] # "none" => pc[c] = "relay"
    /\ pc[c] = "handshake" => Users(c, "client", "read") = {}

C15_Witness ==
  \E c \in Conns :
    /\ Users(c, "client", "read") = {<<c, "task">>, <<c, "up">>}
    /\ Users(c, "client", "write") = {<<c, "down">>}
    /\ Users(c, "remote", "read") = {<<c, "down">>}
    /\ Users(c, "remote", "write") = {<<c, "up">>}

\* the task of the connection has made its cipher
HasCipher(c) ==
  pc[c] \in {"lock", "resolve", "connect", "relay"} \/ failure[c] = "ParseHeader"
    \/ failure[c] \in {"PoisonedLock", "ResolveHost", "Connect"}

\* C16: a connection's cipher is made for it from the configured method and
\* password and advanced by its own traffic only; after the split `cipher`
\* is used by the upstream pump, to decrypt, and `remote_cipher` by the
\* downstream pump, to encrypt, and by no other task.
C16_OwnCipherOneOwner ==
  \A c \in Conns :
    /\ HasCipher(c) =>
         /\ cipher[c].key = KeyOf(running.encrypt_method, running.password)
         /\ cipher[c].enc = 0
         /\ cipher[c].dec = cpos[c]
    /\ pc[c] = "relay" =>
         /\ rcipher[c].key = cipher[c].key
         /\ rcipher[c].enc = rpos[c]
         /\ rcipher[c].dec = Len(FirstRead(c))
    /\ Users(c, "cipher", "decrypt") \subseteq {<<c, "task">>, <<c, "up">>}
    /\ Users(c, "cipher", "encrypt") = {}
    /\ Users(c, "remote_cipher", "encrypt") \subseteq {<<c, "down">>}
    /\ Users(c, "remote_cipher", "decrypt") = {}
    /\ pc[c] # "relay" => Users(c, "cipher", "decrypt") \subseteq {<<c, "task">>}

C16_Witness ==
  \E c \in Conns :
    /\ <<c, "up">> \in Users(c, "cipher", "decrypt")
    /\ <<c, "down">> \in Users(c, "remote_cipher", "encrypt")
    /\ rcipher[c].enc > 0

\* C17: the decrypt handle takes the bytes of the client in the order read,
\* first the handshake buffer and then each upstream chunk, each at its
\* place of the stream and without being made anew; the encrypt handle
\* takes the downstream chunks the same way.
C17_CipherCallsInArrivalOrder ==
  [][\A c \in Conns :
       /\ cipher'[c].dec - cipher[c].dec = cpos'[c] - cpos[c]
       /\ rcipher'[c].enc - rcipher[c].enc = rpos'[c] - rpos[c]
       /\ HasCipher(c) => cipher'[c].key = cipher[c].key
       /\ rout'[c] # rout[c] =>
            rout'[c] = rout[c] \o SubSeq(script[c].plain, cpos[c] + 1, cpos'[c])
       /\ cout'[c] # cout[c] =>
            ClientView(c)' =
              ClientView(c) \o SubSeq(script[c].reply, rpos[c] + 1, rpos'[c])
       /\ <<c, "up">> \in Users(c, "cipher", "decrypt")' =>
            <<c, "task">> \in Users(c, "cipher", "decrypt")']_vars

C17_Witness ==
  \E c \in Conns :
    /\ cipher[c].dec = Len(script[c].plain)
    /\ rout[c] = Payload
    /\ rcipher[c].enc = Len(Reply)
    /\ ClientView(c) = Reply

\* a running pump holds its handles; the sockets are closed exactly when
\* both pumps have ended
SocketsHeld(c) ==
  /\ up[c] = "run" => "stream" \in clientH[c] /\ "remote_stream" \in remoteH[c]
  /\ down[c] = "run" =>
       /\ "remote_local_stream" \in clientH[c]
       /\ "remote_remote_stream" \in remoteH[c]
  /\ pc[c] = "relay" =>
       /\ clientH[c] = {} <=> (Exited(up[c]) /\ Exited(down[c]))
       /\ remoteH[c] = {} <=> (Exited(up[c]) /\ Exited(down[c]))

\* C18: the two sockets of a connection stay open while a pump that uses
\* them runs, are released when both pumps have ended, and a released
\* socket is never opened or released again.
C18_SocketsReleasedOnce ==
  [][\A c \in Conns :
       /\ SocketsHeld(c)'
       /\ pc[c] = "relay" =>
            /\ clientH'[c] \subseteq clientH[c]
            /\ remoteH'[c] \subseteq remoteH[c]]_vars

C18_Witness ==
  \E c \in Conns :
    /\ pc[c] = "relay"
    /\ Exited(up[c])
    /\ Exited(down[c])
    /\ clientH[c] = {}
    /\ remoteH[c] = {}

\* the first read returned a proper prefix of a valid header
TruncatedHeader(c) ==
  /\ script[c].goodkey
  /\ ParseRequestHeader(script[c].plain).ok
  /\ script[c].first > 0
  /\ script[c].first < HeaderLen(c)

\* C19: the handshake is one read of at most 1024 bytes; when it returns a
\* proper prefix of a valid header the connection fails and never dials or
\* relays, though the rest of the header is on its way.
C19_TruncatedHeaderFails ==
  \A c \in Conns :
    /\ pc[c] # "relay" => cpos[c] \in {0, Len(FirstRead(c))}
    /\ pc[c] # "relay" => cpos[c] <= HeaderBufLen
    /\ (Accepted(c) /\ TruncatedHeader(c)) =>
         /\ pc[c] \in {"handshake", "failed"}
         /\ failure[c] \in
              {"none", "UnsupportedCipher", "ReadOther", "ReadTimedOut", "ParseHeader"}
         /\ dialed[c] = NoDial
         /\ up[c] = "none"
         /\ down[c] = "none"

C19_Witness ==
  \E c \in Conns :
    /\ TruncatedHeader(c)
    /\ Len(script[c].plain) > HeaderLen(c)
    /\ failure[c] = "ParseHeader"
    /\ cpos[c] = script[c].first

====
